---- MODULE Spec2Model ----
(***************************************************************************)
(* Model of the interactive HGF dashboard.                                 *)
(*                                                                         *)
(*   src/plot.py      plot_trajectories: builds a column of linked charts  *)
(*   src/app/main.py  the application: four sliders, a dropdown, the       *)
(*                    fit_hgf / on_change callbacks and the root layout    *)
(*                                                                         *)
(* Numbers that the program writes as decimals (slider values, priors) are *)
(* kept in hundredths, so -4 is -400, 1.04 is 104 and a step of .1 is 10.  *)
(* Data held in the trajectories table is external to the repository; the  *)
(* glyphs refer to it by column name, as the code does.                    *)
(***************************************************************************)
EXTENDS Integers, Sequences, FiniteSets

VARIABLES
    \* ---- src/app/main.py
    pc,         \* "loading" before the module has run, "serving" once the
                \* root is added to the document, "failed" when the module raised
    sliders,    \* value of slider1..slider4 (hundredths)
    layout,     \* children of the root column, <<>> until it is built
    invalid,    \* the (parameter, value) pairs for which the external fit raises
    lastEvent,  \* the last event dispatched to the document
    called,     \* the application functions the last event invoked
    fit,        \* the last call of fit_hgf: its arguments, model and outcome
    outcome,    \* how the last piece of application code ended: "ok", or
                \* "raised" when an exception left it uncaught
    \* ---- src/plot.py
    ppc,        \* where a call of plot_trajectories stands: "idle" (no call),
                \* "loop", "surprise", "slider", "return", "returned", "raised"
    pin,        \* the arguments of the call
    body,       \* its local variables: the loop index i and, in st, cols,
                \* level_plot and the ranges made so far
    pout        \* the column it returned

appVars == <<pc, sliders, layout, invalid, lastEvent, called, fit, outcome>>
plotVars == <<ppc, pin, body, pout>>
vars == <<pc, sliders, layout, invalid, lastEvent, called, fit, outcome,
          ppc, pin, body, pout>>

None == [none |-> TRUE]

(***************************************************************************)
(* Bounds                                                                  *)
(***************************************************************************)
\* slider positions reachable from the start of its range, besides its end
MaxSteps == 1
\* largest number of nodes of a fitted model given to plot_trajectories
MaxNodes == 3
\* time points a range selection can pick as its start or end
MaxTime == 2

(***************************************************************************)
(* Python values: `x is True` holds of the object True alone, `if x:`      *)
(* of every truthy object.                                                 *)
(***************************************************************************)
Flags == {"True", "False", "1", "0"}
IsTrue(v) == v = "True"
Truthy(v) == v \in {"True", "1"}

(***************************************************************************)
(* The fitted model (pyhgf.model.HGF) as the repository sees it.           *)
(***************************************************************************)
HGF(n_levels, model_type, initial_mu, initial_pi, omega, rho, kappas) ==
    [n_levels |-> n_levels, model_type |-> model_type,
     initial_mu |-> initial_mu, initial_pi |-> initial_pi,
     omega |-> omega, rho |-> rho, kappas |-> kappas]

\* trajectories_df.columns.str.contains("_muhat").sum()
NNodes(hgf) == hgf.n_levels

(***************************************************************************)
(* Columns of the trajectories table and expressions over them.            *)
(***************************************************************************)
Col(name) == [col |-> name]
NodeCol(i, stat) == [node |-> i, stat |-> stat]
Sd(i) == [fn |-> "sqrt(1/x)", of |-> NodeCol(i, "pihat")]
BandLow(i) == [op |-> "-", a |-> NodeCol(i, "muhat"), b |-> Sd(i)]
BandHigh(i) == [op |-> "+", a |-> NodeCol(i, "muhat"), b |-> Sd(i)]
Min(e) == [fn |-> "min", of |-> e]
Max(e) == [fn |-> "max", of |-> e]
Iloc(e, k) == [fn |-> "iloc", of |-> e, at |-> k]
Num(k) == [num |-> k]

Dark2_5 == <<"#1b9e77", "#d95f02", "#7570b3", "#e7298a", "#66a61e">>
FigsizeDefault == 200

(***************************************************************************)
(* Bokeh objects.  Ranges are objects shared by reference: a figure holds  *)
(* the identity of its ranges, the heap `ranges` holds their contents.     *)
(***************************************************************************)
Range1d(start, end) == [kind |-> "Range1d", start |-> start, end |-> end]
DataRange1d == [kind |-> "DataRange1d", start |-> None, end |-> None]

Glyph(kind, x, y, y2, color, y_range_name) ==
    [glyph |-> kind, x |-> x, y |-> y, y2 |-> y2, color |-> color,
     y_range_name |-> y_range_name]

\* the state of the body of plot_trajectories
\*   cols        the list cols
\*   level_plot  the local variable level_plot (None while unbound)
\*   ranges      the range objects created so far, by identity 1..Len
Body0 == [cols |-> <<>>, level_plot |-> None, ranges |-> <<>>]

\* a range argument of figure(...): the identity id of an existing range,
\* or 0, for which the range r is created
RangeArg(rs, id, r) ==
    [ranges |-> IF id # 0 THEN rs ELSE Append(rs, r),
     id |-> IF id # 0 THEN id ELSE Len(rs) + 1]

FigureXY(ax, ay, title, height, y_label) ==
    [fig |-> [title |-> title, height |-> height, y_axis_label |-> y_label,
              x_range |-> ax.id, y_range |-> ay.id,
              extra_y_ranges |-> <<>>, renderers |-> <<>>,
              right |-> <<>>, tools |-> <<>>],
     ranges |-> ay.ranges]

FigureX(ax, title, height, y_range, y_label) ==
    FigureXY(ax, RangeArg(ax.ranges, y_range, DataRange1d), title, height,
             y_label)

\* figure(...): a new figure and the heap with the ranges it created; xinit
\* is the (start, end) pair given as x_range, or None
Figure(rs, title, height, x_range, xinit, y_range, y_label) ==
    FigureX(RangeArg(rs, x_range,
                     IF xinit = None THEN DataRange1d
                     ELSE Range1d(xinit.start, xinit.end)),
            title, height, y_range, y_label)

AddGlyph(f, g) == [f EXCEPT !.renderers = Append(@, g)]

TimeSpan == [start |-> Iloc(Col("time"), 0), end |-> Iloc(Col("time"), -1)]

(***************************************************************************)
(* plot_trajectories, the loop over the node indexes: one iteration for    *)
(* node i, as stages over w = [fig, ranges].                               *)
(***************************************************************************)
\* next(palette) in the iteration of node i
Color(hgf, i) == Dark2_5[((NNodes(hgf) - i) % 5) + 1]

\* variant: every level figure creates an x-range of its own
LevelXRange_own(st) == 0

\* x_range of the figure of a level: that of the previous level_plot once
\* cols is not empty
LevelXRange(st) ==
    IF Len(st.cols) # 0 THEN st.level_plot.x_range ELSE 0

LevelFigure(st, i, figsize) ==
    Figure(st.ranges, [node |-> i], figsize, LevelXRange(st), TimeSpan, 0,
           "Input")

\* The circle call of the binary branch passes edgecolors, which is not a
\* property of the glyph: the toolkit rejects it with an AttributeError.
InputCircle(hgf) ==
    IF hgf.model_type = "continuous"
    THEN [raises |-> FALSE,
          glyphs |-> <<Glyph("circle", Col("time"), Col("observation"), None,
                             "#2a2a2a", "default")>>]
    ELSE IF hgf.model_type = "binary"
    THEN [raises |-> TRUE, glyphs |-> <<>>]
    ELSE [raises |-> FALSE, glyphs |-> <<>>]

InputRaises(hgf, i) == (i = 1) /\ InputCircle(hgf).raises

WithInput(w, hgf, i) ==
    IF i = 1
    THEN [w EXCEPT !.fig.renderers = @ \o InputCircle(hgf).glyphs]
    ELSE w

WithMean(w, hgf, i) ==
    [w EXCEPT !.fig = AddGlyph(@, Glyph("line", Col("time"),
                                        NodeCol(i, "muhat"), None,
                                        Color(hgf, i), "default"))]

\* variant: `if ci:` in place of `if ci is True:`
ShowBand_truthy(hgf, i, ci) ==
    Truthy(ci) /\ ~((hgf.model_type = "binary") /\ (i = 1))

ShowBand(hgf, i, ci) ==
    IsTrue(ci) /\ ~((hgf.model_type = "binary") /\ (i = 1))

WithBand(w, hgf, i, ci) ==
    IF ShowBand(hgf, i, ci)
    THEN [fig |-> [AddGlyph(w.fig, Glyph("varea", Col("time"), BandLow(i),
                                         BandHigh(i), Color(hgf, i),
                                         "default"))
                      EXCEPT !.y_range = Len(w.ranges) + 1],
          ranges |-> Append(w.ranges,
                            Range1d(Min(BandLow(i)), Max(BandHigh(i))))]
    ELSE w

\* variant: the surprise flag is ignored
ShowSurprise_always(surprise) == TRUE

ShowSurprise(surprise) == Truthy(surprise)

SurpriseLine(i) ==
    Glyph("line", Col("time"), NodeCol(i, "surprise"), None, "#2a2a2a",
          "surprise")

SurpriseArea(i) ==
    Glyph("varea", Col("time"), NodeCol(i, "surprise"),
          Min(NodeCol(i, "surprise")), "#7f7f7f", "surprise")

SurpriseAxis ==
    [axis |-> "LinearAxis", y_range_name |-> "surprise",
     axis_label |-> "Surprise"]

WithSurprise(w, i, surprise) ==
    IF ShowSurprise(surprise)
    THEN [fig |-> [w.fig EXCEPT
                     !.extra_y_ranges = <<[name |-> "surprise",
                                           range |-> Len(w.ranges) + 1]>>,
                     !.renderers = @ \o <<SurpriseLine(i), SurpriseArea(i)>>,
                     !.right = Append(@, SurpriseAxis)],
          ranges |-> Append(w.ranges,
                            Range1d(Min(NodeCol(i, "surprise")),
                                    Max(NodeCol(i, "surprise"))))]
    ELSE w

\* cols.append(level_plot)
AppendLevel(st, w) ==
    [raised |-> FALSE,
     st |-> [cols |-> Append(st.cols, w.fig), level_plot |-> w.fig,
             ranges |-> w.ranges]]

\* the call raised in this iteration: level_plot is bound to the bare
\* figure, cols is as it was
RaiseLevel(st, w) ==
    [raised |-> TRUE,
     st |-> [cols |-> st.cols, level_plot |-> w.fig, ranges |-> w.ranges]]

LoopBody(st, hgf, i, ci, surprise, figsize) ==
    IF InputRaises(hgf, i)
    THEN RaiseLevel(st, LevelFigure(st, i, figsize))
    ELSE AppendLevel(st,
           WithSurprise(
             WithBand(
               WithMean(WithInput(LevelFigure(st, i, figsize), hgf, i),
                        hgf, i),
               hgf, i, ci),
             i, surprise))

(***************************************************************************)
(* plot_trajectories, the global surprise chart.                           *)
(***************************************************************************)
SurpriseGlyphs ==
    <<Glyph("varea", Col("time"), Col("surprise"), Min(Col("surprise")),
            "#7f7f7f", "default"),
      Glyph("line", Col("time"), Col("surprise"), None, "#2a2a2a",
            "default")>>

AppendChart(st, w) ==
    [cols |-> Append(st.cols, w.fig), level_plot |-> st.level_plot,
     ranges |-> w.ranges]

SurpriseFigure(w) == [w EXCEPT !.fig.renderers = @ \o SurpriseGlyphs]

SurprisePlot(st, figsize) ==
    AppendChart(st,
      SurpriseFigure(Figure(st.ranges, [global |-> "surprise"], figsize,
                            st.level_plot.x_range, None, 0, "Surprise")))

(***************************************************************************)
(* plot_trajectories, the range-selector strip.  surprise_plot is the last *)
(* element of cols when this runs.                                         *)
(***************************************************************************)
RangeTool(x_range) == [tool |-> "RangeTool", x_range |-> x_range]

SelectFigure(w, surprise_plot) ==
    [w EXCEPT !.fig.renderers =
                  Append(@, Glyph("line", Col("time"), Col("observation"),
                                  None, "default", "default")),
              !.fig.tools = Append(@, RangeTool(surprise_plot.x_range))]

Select(st, slider, figsize) ==
    IF IsTrue(slider)
    THEN AppendChart(st,
           SelectFigure(Figure(st.ranges, [select |-> "time range"],
                               (figsize * 4) \div 10, 0, None,
                               st.level_plot.y_range, ""),
                        st.cols[Len(st.cols)]))
    ELSE st

\* column(*cols): the children, the ranges they refer to and the model
\* whose trajectories the glyphs read
Column(st, hgf) == [children |-> st.cols, ranges |-> st.ranges, df |-> hgf]

RECURSIVE Loop(_, _, _, _, _, _)
LoopNext(r, hgf, i, ci, surprise, figsize) ==
    IF r.raised THEN r ELSE Loop(r.st, hgf, i - 1, ci, surprise, figsize)

\* for i in range(n_nodes, 0, -1), from index i on
Loop(st, hgf, i, ci, surprise, figsize) ==
    IF i = 0 THEN [raised |-> FALSE, st |-> st]
    ELSE LoopNext(LoopBody(st, hgf, i, ci, surprise, figsize), hgf, i, ci,
                  surprise, figsize)

AfterLoop(l, hgf, figsize, slider) ==
    IF l.raised THEN None
    ELSE Column(Select(SurprisePlot(l.st, figsize), slider, figsize), hgf)

\* the whole call: the column, or None when it raised
plot_trajectories(hgf, ci, surprise, figsize, slider) ==
    AfterLoop(Loop(Body0, hgf, NNodes(hgf), ci, surprise, figsize), hgf,
              figsize, slider)

(***************************************************************************)
(* src/app/main.py: the widgets.                                           *)
(***************************************************************************)
SliderNames == {"slider1", "slider2", "slider3", "slider4"}

\* variant: the omega sliders get the range of the mu sliders
Slider_wide(name) ==
    CASE name = "slider1" ->
           [start |-> -2000, end |-> 2000, value |-> -400, step |-> 10,
            title |-> "Omega 1"]
      [] name = "slider2" ->
           [start |-> -2000, end |-> 2000, value |-> -400, step |-> 10,
            title |-> "Omega 2"]
      [] name = "slider3" ->
           [start |-> -2000, end |-> 2000, value |-> 104, step |-> 10,
            title |-> "Mu 1"]
      [] name = "slider4" ->
           [start |-> -2000, end |-> 2000, value |-> 0, step |-> 10,
            title |-> "Mu 2"]

Slider(name) ==
    CASE name = "slider1" ->
           [start |-> -2000, end |-> 500, value |-> -400, step |-> 10,
            title |-> "Omega 1"]
      [] name = "slider2" ->
           [start |-> -2000, end |-> 500, value |-> -400, step |-> 10,
            title |-> "Omega 2"]
      [] name = "slider3" ->
           [start |-> -2000, end |-> 2000, value |-> 104, step |-> 10,
            title |-> "Mu 1"]
      [] name = "slider4" ->
           [start |-> -2000, end |-> 2000, value |-> 0, step |-> 10,
            title |-> "Mu 2"]

\* menu of the dropdown (the values of its items)
Menu == {"binary", "continuous"}

\* the values a move of the slider can give it: on the step grid, clamped
\* to [start, end]
SliderValues(name) ==
    {v \in {Slider(name).start + k * Slider(name).step :
                k \in 0..(MaxSteps - 1)} : v <= Slider(name).end}
        \cup {Slider(name).end}

\* The parameter values for which the external fit is taken to raise: none,
\* or a sample of one parameter at one value: an omega or a mu at the lower
\* end of its slider (reached by a slider move), or at its initial value
\* (which makes the initial fit raise).
InvalidSets ==
    {{},
     {<<"omega1", Slider("slider1").start>>},
     {<<"mu2", Slider("slider4").start>>},
     {<<"omega2", Slider("slider2").value>>},
     {<<"mu1", Slider("slider3").value>>}}

(***************************************************************************)
(* fit_hgf.  Fitting is done by the external library; whether it raises    *)
(* for a parameter combination is a fixed property of that combination     *)
(* (the set inv), not of the call.                                         *)
(***************************************************************************)
Raises(inv, omega1, omega2, mu1, mu2) ==
    \/ <<"omega1", omega1>> \in inv
    \/ <<"omega2", omega2>> \in inv
    \/ <<"mu1", mu1>> \in inv
    \/ <<"mu2", mu2>> \in inv

FitArgs(omega1, omega2, mu1, mu2) ==
    [omega1 |-> omega1, omega2 |-> omega2, mu1 |-> mu1, mu2 |-> mu2]

\* variant: the omegas are given to the wrong levels
FitModel_swapped(omega1, omega2, mu1, mu2) ==
    HGF(2, "continuous", <<mu1, mu2>>, <<10000, 1000>>, <<omega2, omega1>>,
        <<0, 0>>, <<100>>)

FitModel(omega1, omega2, mu1, mu2) ==
    HGF(2, "continuous", <<mu1, mu2>>, <<10000, 1000>>, <<omega1, omega2>>,
        <<0, 0>>, <<100>>)

FitResult(args, hgf, plot) ==
    [args |-> args, hgf |-> hgf, raised |-> (plot = None), value |-> plot]

fit_hgf(inv, omega1, omega2, mu1, mu2) ==
    FitResult(FitArgs(omega1, omega2, mu1, mu2),
              FitModel(omega1, omega2, mu1, mu2),
              IF Raises(inv, omega1, omega2, mu1, mu2) THEN None
              ELSE plot_trajectories(FitModel(omega1, omega2, mu1, mu2),
                                     "True", "True", FigsizeDefault, "True"))

\* what the variable fit keeps of a call
FitRecord(r) == [args |-> r.args, hgf |-> r.hgf, raised |-> r.raised]

(***************************************************************************)
(* on_change: the exception of a failed fit leaves it uncaught, before     *)
(* the assignment to layout.children[2].                                   *)
(***************************************************************************)
\* variant: the plot replaces the widgets (index 1) instead of index 2
AssignPlot_widgets(lay, r) ==
    [fit |-> FitRecord(r),
     raised |-> r.raised,
     layout |-> IF r.raised THEN lay ELSE [lay EXCEPT ![2] = r.value]]

\* variant: the exception is caught and the plot region is emptied
AssignPlot_emptied(lay, r) ==
    [fit |-> FitRecord(r),
     raised |-> r.raised,
     layout |-> [lay EXCEPT ![3] = r.value]]

AssignPlot(lay, r) ==
    [fit |-> FitRecord(r),
     raised |-> r.raised,
     layout |-> IF r.raised THEN lay ELSE [lay EXCEPT ![3] = r.value]]

\* variant: on_change catches the exception of the fit
on_change_caught(inv, lay, sl) ==
    [AssignPlot(lay, fit_hgf(inv, sl["slider1"], sl["slider2"],
                             sl["slider3"], sl["slider4"]))
        EXCEPT !.raised = FALSE]

on_change(inv, lay, sl) ==
    AssignPlot(lay, fit_hgf(inv, sl["slider1"], sl["slider2"],
                            sl["slider3"], sl["slider4"]))

\* slider1..4.on_change('value', on_change); nothing is registered on the
\* dropdown
\* variant: on_change is registered on the dropdown too
Callbacks_all(widget) == <<"on_change">>

Callbacks(widget) ==
    IF widget \in SliderNames THEN <<"on_change">> ELSE <<>>

\* app_title = div
AppTitle == [div |-> "<h1>The Hierarchical Gaussian Filter</h1>"]

\* widgets = column(row(slider1, slider2), row(slider3, slider4))
Widgets ==
    [column |-> <<[row |-> <<"slider1", "slider2">>],
                  [row |-> <<"slider3", "slider4">>]>>]

\* layout = column(app_title, widgets, fit_hgf(...))
RootLayout(plot) == <<AppTitle, Widgets, plot>>

(***************************************************************************)
(* Actions of the application.                                             *)
(***************************************************************************)
MainWith(r) ==
    /\ fit' = FitRecord(r)
    /\ IF r.raised
       THEN /\ pc' = "failed"
            /\ outcome' = "raised"
            /\ layout' = layout
       ELSE /\ pc' = "serving"
            /\ outcome' = "ok"
            /\ layout' = RootLayout(r.value)

\* the module body, run once when a session opens the document
Main ==
    /\ pc = "loading"
    /\ MainWith(fit_hgf(invalid, sliders["slider1"], sliders["slider2"],
                        sliders["slider3"], sliders["slider4"]))
    /\ lastEvent' = [widget |-> "document"]
    /\ called' = <<"fit_hgf">>
    /\ UNCHANGED <<sliders, invalid, ppc, pin, body, pout>>

Ran(widget, r) ==
    /\ called' = Callbacks(widget) \o <<"fit_hgf">>
    /\ layout' = r.layout
    /\ fit' = r.fit
    /\ outcome' = IF r.raised THEN "raised" ELSE "ok"

\* an event of a widget: its callbacks run
Dispatch(widget, ev, sl) ==
    /\ lastEvent' = ev
    /\ IF Callbacks(widget) = <<>>
       THEN /\ called' = <<>>
            /\ UNCHANGED <<layout, fit, outcome>>
       ELSE Ran(widget, on_change(invalid, layout, sl))

\* the user moves slider s to v: the value is set, then the callbacks run
SliderChange(s, v) ==
    /\ pc = "serving"
    /\ v # sliders[s]
    /\ sliders' = [sliders EXCEPT ![s] = v]
    /\ Dispatch(s, [widget |-> s, attr |-> "value", new |-> v], sliders')
    /\ UNCHANGED <<pc, invalid, ppc, pin, body, pout>>

\* an item of the dropdown is chosen
DropdownClick(item) ==
    /\ pc = "serving"
    /\ Dispatch("dropdown", [widget |-> "dropdown", item |-> item], sliders)
    /\ UNCHANGED <<pc, sliders, invalid, ppc, pin, body, pout>>

\* no call of plot_trajectories is followed step by step
PlotIdle ==
    /\ ppc = "idle"
    /\ pin = None
    /\ body = None
    /\ pout = None

Init ==
    /\ pc = "loading"
    /\ sliders = [n \in SliderNames |-> Slider(n).value]
    /\ layout = <<>>
    /\ invalid \in InvalidSets
    /\ lastEvent = None
    /\ called = <<>>
    /\ fit = None
    /\ outcome = "ok"
    /\ PlotIdle

Next ==
    \/ Main
    \/ \E s \in SliderNames : \E v \in SliderValues(s) : SliderChange(s, v)
    \/ \E item \in Menu : DropdownClick(item)

Spec == Init /\ [][Next]_vars

(***************************************************************************)
(* A call of plot_trajectories followed statement by statement, for every  *)
(* model and flag combination within the bounds, and the range selection   *)
(* a user makes on the column it returned.                                 *)
(***************************************************************************)
ModelTypes == {"continuous", "binary"}

\* a fitted model of n nodes
SampleHGF(n, model_type) ==
    HGF(n, model_type, [k \in 1..n |-> 0], [k \in 1..n |-> 100],
        [k \in 1..n |-> -400], [k \in 1..n |-> 0], [k \in 1..(n - 1) |-> 100])

PlotArgs(hgf, ci, surprise, figsize, slider) ==
    [hgf |-> hgf, ci |-> ci, surprise |-> surprise, figsize |-> figsize,
     slider |-> slider]

\* the application is not running
AppIdle ==
    /\ pc = "loading"
    /\ sliders = [n \in SliderNames |-> Slider(n).value]
    /\ layout = <<>>
    /\ invalid = {}
    /\ lastEvent = None
    /\ called = <<>>
    /\ fit = None
    /\ outcome = "ok"

\* the call, up to the loop: cols = []
PlotInit ==
    /\ AppIdle
    /\ \E n \in 1..MaxNodes, t \in ModelTypes, ci \in Flags, su \in Flags,
          sl \in Flags :
          /\ pin = PlotArgs(SampleHGF(n, t), ci, su, FigsizeDefault, sl)
          /\ body = [i |-> n, st |-> Body0]
    /\ ppc = "loop"
    /\ pout = None

PlotLoopWith(r) ==
    /\ body' = [i |-> IF r.raised THEN body.i ELSE body.i - 1, st |-> r.st]
    /\ ppc' = IF r.raised THEN "raised"
              ELSE IF body.i - 1 = 0 THEN "surprise" ELSE "loop"

\* one iteration of the loop over the node indexes
PlotLoop ==
    /\ ppc = "loop"
    /\ PlotLoopWith(LoopBody(body.st, pin.hgf, body.i, pin.ci, pin.surprise,
                             pin.figsize))
    /\ UNCHANGED <<pin, pout>>
    /\ UNCHANGED appVars

\* the global surprise chart
PlotSurprise ==
    /\ ppc = "surprise"
    /\ body' = [body EXCEPT !.st = SurprisePlot(@, pin.figsize)]
    /\ ppc' = "slider"
    /\ UNCHANGED <<pin, pout>>
    /\ UNCHANGED appVars

\* the range-selector strip
PlotSlider ==
    /\ ppc = "slider"
    /\ body' = [body EXCEPT !.st = Select(@, pin.slider, pin.figsize)]
    /\ ppc' = "return"
    /\ UNCHANGED <<pin, pout>>
    /\ UNCHANGED appVars

\* return column(*cols, sizing_mode="stretch_width")
PlotReturn ==
    /\ ppc = "return"
    /\ pout' = Column(body.st, pin.hgf)
    /\ ppc' = "returned"
    /\ UNCHANGED <<pin, body>>
    /\ UNCHANGED appVars

\* the range tool sets the start and end of the range it is bound to
Selected(col, id, a, b) ==
    [col EXCEPT !.ranges[id] = [@ EXCEPT !.start = Num(a), !.end = Num(b)]]

\* the user drags the overlay of the selector strip to [a, b]
RangeSelect(a, b) ==
    /\ ppc = "returned"
    /\ a < b
    /\ \E k \in 1..Len(pout.children) :
          /\ pout.children[k].tools # <<>>
          /\ pout' = Selected(pout, pout.children[k].tools[1].x_range, a, b)
    /\ UNCHANGED <<ppc, pin, body>>
    /\ UNCHANGED appVars

PlotNext ==
    \/ PlotLoop
    \/ PlotSurprise
    \/ PlotSlider
    \/ PlotReturn
    \/ \E a \in 0..MaxTime, b \in 0..MaxTime : RangeSelect(a, b)

SpecPlot == PlotInit /\ [][PlotNext]_vars

(***************************************************************************)
(* Vocabulary of the properties.                                           *)
(***************************************************************************)
IsPlot(x) == DOMAIN x = {"children", "ranges", "df"}
IsNodeChart(c) == DOMAIN c.title = {"node"}
IsGlobalChart(c) == DOMAIN c.title = {"global"}
IsSelectChart(c) == DOMAIN c.title = {"select"}
IsNumber(e) == DOMAIN e = {"num"}

ReadsSurprise(g) ==
    \/ g.y = [col |-> "surprise"]
    \/ (DOMAIN g.y = {"node", "stat"} /\ g.y.stat = "surprise")

ReadsObservation(g) == g.y = [col |-> "observation"]

ShowsStatistics(c, i) ==
    \E k \in 1..Len(c.renderers) :
        /\ c.renderers[k].glyph = "line"
        /\ c.renderers[k].y = [node |-> i, stat |-> "muhat"]
        /\ c.renderers[k].y_range_name = "default"

ShowsNodeSurprise(c, i) ==
    /\ \E k \in 1..Len(c.renderers) :
          /\ c.renderers[k].glyph = "line"
          /\ c.renderers[k].y = [node |-> i, stat |-> "surprise"]
          /\ c.renderers[k].y_range_name = "surprise"
    /\ \E k \in 1..Len(c.extra_y_ranges) :
          c.extra_y_ranges[k].name = "surprise"
    /\ \E k \in 1..Len(c.right) : c.right[k].y_range_name = "surprise"

ShowsNoSurprise(c) ==
    /\ \A k \in 1..Len(c.renderers) : ~ReadsSurprise(c.renderers[k])
    /\ c.extra_y_ranges = <<>>
    /\ c.right = <<>>

HasBand(c, i) ==
    \E k \in 1..Len(c.renderers) :
        /\ c.renderers[k].glyph = "varea"
        /\ c.renderers[k].y = BandLow(i)
        /\ c.renderers[k].y2 = BandHigh(i)

YRangeIsBand(c, i, heap) ==
    heap[c.y_range] = [kind |-> "Range1d", start |-> Min(BandLow(i)),
                       end |-> Max(BandHigh(i))]

DrawsObservations(c) ==
    \E k \in 1..Len(c.renderers) : ReadsObservation(c.renderers[k])

\* the charts a call has completed so far (appended to cols)
Built == body.st.cols

\* the arguments of the fit whose plot is the third child of the layout
Shown(lay) ==
    [omega1 |-> lay[3].df.omega[1], omega2 |-> lay[3].df.omega[2],
     mu1 |-> lay[3].df.initial_mu[1], mu2 |-> lay[3].df.initial_mu[2]]

Current(sl) ==
    [omega1 |-> sl["slider1"], omega2 |-> sl["slider2"],
     mu1 |-> sl["slider3"], mu2 |-> sl["slider4"]]

(***************************************************************************)
(* Properties of the application (specification Spec).                     *)
(***************************************************************************)

\* C1: at start-up and after every slider callback that completed, the
\* third child of the layout is the complete plot of a model fitted with
\* the current values of the four sliders: slider1 and slider2 are the
\* omegas of levels 1 and 2, slider3 and slider4 the initial mus.
C1_PlotFollowsSliders ==
    (pc = "serving" /\ outcome = "ok") =>
        /\ Len(layout) = 3
        /\ IsPlot(layout[3])
        /\ Shown(layout) = Current(sliders)
        /\ fit.args = Current(sliders)
        /\ Len(layout[3].children) = 4

C1_Witness ==
    /\ pc = "serving"
    /\ outcome = "ok"
    /\ lastEvent = [widget |-> "slider3", attr |-> "value", new |-> 2000]
    /\ sliders["slider1"] = 500
    /\ IsPlot(layout[3])
    /\ layout[3].df.initial_mu = <<2000, 0>>
    /\ layout[3].df.omega = <<500, -400>>

\* C2: choosing an item of the dropdown runs no callback, so it neither
\* fits nor changes the layout; every fit made is of a continuous model
\* with 2 levels, initial_pi (1e2, 1e1), rho (0, 0) and kappas (1).
C2_DropdownNotWired ==
    /\ [](fit # None =>
            /\ fit.hgf.model_type = "continuous"
            /\ fit.hgf.n_levels = 2
            /\ fit.hgf.initial_pi = <<10000, 1000>>
            /\ fit.hgf.rho = <<0, 0>>
            /\ fit.hgf.kappas = <<100>>)
    /\ [][lastEvent'.widget = "dropdown" =>
            /\ called' = <<>>
            /\ layout' = layout
            /\ fit' = fit
            /\ sliders' = sliders
            /\ outcome' = outcome]_vars

C2_Witness ==
    /\ pc = "serving"
    /\ lastEvent = [widget |-> "dropdown", item |-> "binary"]
    /\ called = <<>>
    /\ sliders["slider2"] = -2000
    /\ IsPlot(layout[3])
    /\ layout[3].df.model_type = "continuous"

\* C3: whenever the document has its root, the layout has exactly three
\* children: the title, the widgets (the row of the omega sliders, then the
\* row of the mu sliders) and the plot region; before that, and when the
\* module raised, there is no layout.
C3_LayoutShape ==
    /\ pc = "serving" =>
          /\ Len(layout) = 3
          /\ layout[1] = [div |-> "<h1>The Hierarchical Gaussian Filter</h1>"]
          /\ layout[2] = [column |-> <<[row |-> <<"slider1", "slider2">>],
                                      [row |-> <<"slider3", "slider4">>]>>]
          /\ IsPlot(layout[3])
          /\ Len(layout[3].children) = 4
    /\ pc # "serving" => layout = <<>>

C3_Witness ==
    /\ pc = "serving"
    /\ lastEvent = [widget |-> "slider4", attr |-> "value", new |-> -2000]
    /\ outcome = "ok"
    /\ Len(layout) = 3
    /\ IsPlot(layout[3])
    /\ layout[3].df.initial_mu[2] = -2000

\* C4: every slider value lies within [-20, 5] (omegas) or [-20, 20] (mus),
\* from the start on, and so does every omega and mu passed to a fit.
C4_ValuesInRange ==
    /\ sliders["slider1"] \in -2000..500
    /\ sliders["slider2"] \in -2000..500
    /\ sliders["slider3"] \in -2000..2000
    /\ sliders["slider4"] \in -2000..2000
    /\ fit # None =>
          /\ fit.args.omega1 \in -2000..500
          /\ fit.args.omega2 \in -2000..500
          /\ fit.args.mu1 \in -2000..2000
          /\ fit.args.mu2 \in -2000..2000
          /\ fit.hgf.omega = <<fit.args.omega1, fit.args.omega2>>
          /\ fit.hgf.initial_mu = <<fit.args.mu1, fit.args.mu2>>

C4_Witness ==
    /\ pc = "serving"
    /\ fit # None
    /\ fit.args = [omega1 |-> 500, omega2 |-> -2000, mu1 |-> 2000,
                   mu2 |-> -2000]

\* C5: a fit that raises is never caught: the initial fit that raises ends
\* the module (no layout is served), a fit that raises in a slider callback
\* leaves the callback as an uncaught exception.
C5_NothingCaught ==
    /\ fit # None => (fit.raised <=> outcome = "raised")
    /\ pc = "failed" <=> (fit # None /\ fit.raised /\ called = <<"fit_hgf">>)
    /\ pc = "loading" => fit = None

C5_Witness ==
    /\ pc = "serving"
    /\ lastEvent = [widget |-> "slider4", attr |-> "value", new |-> -2000]
    /\ fit # None
    /\ fit.raised
    /\ outcome = "raised"
    /\ called = <<"on_change", "fit_hgf">>

\* C10: when the fit of a slider callback raises, the layout is exactly as
\* before the event while the slider holds its new value; the third child
\* is then a complete plot of a fit that succeeded, with parameters other
\* than the current slider values.
C10_FailedFitKeepsPlot ==
    /\ [](pc = "serving" /\ outcome = "raised" =>
            /\ Len(layout) = 3
            /\ IsPlot(layout[3])
            /\ Len(layout[3].children) = 4
            /\ Shown(layout) # Current(sliders)
            /\ ~Raises(invalid, Shown(layout).omega1, Shown(layout).omega2,
                       Shown(layout).mu1, Shown(layout).mu2)
            /\ lastEvent.widget \in SliderNames =>
                  sliders[lastEvent.widget] = lastEvent.new)
    /\ [][(pc = "serving" /\ lastEvent'.widget \in SliderNames
              /\ outcome' = "raised") =>
            /\ layout' = layout
            /\ sliders' # sliders]_vars

C10_Witness ==
    /\ pc = "serving"
    /\ outcome = "raised"
    /\ lastEvent = [widget |-> "slider1", attr |-> "value", new |-> -2000]
    /\ sliders["slider1"] = -2000
    /\ IsPlot(layout[3])
    /\ layout[3].df.omega[1] = 500

(***************************************************************************)
(* Properties of plot_trajectories (specification SpecPlot).               *)
(***************************************************************************)

\* C6: with surprise True the chart of every node shows that node's
\* surprise, on a secondary 'surprise' axis, next to the node's mean; with
\* surprise False no node chart shows any surprise and the only surprise
\* drawn is the input node's, on the global surprise chart.
C6_SurprisePerNode ==
    /\ \A k \in 1..Len(Built) :
          IsNodeChart(Built[k]) =>
              /\ ShowsStatistics(Built[k], Built[k].title.node)
              /\ pin.surprise = "True" =>
                    ShowsNodeSurprise(Built[k], Built[k].title.node)
              /\ pin.surprise = "False" => ShowsNoSurprise(Built[k])
    /\ (ppc = "returned" /\ pin.surprise = "False") =>
          \A k \in 1..Len(pout.children) :
              (\E j \in 1..Len(pout.children[k].renderers) :
                    ReadsSurprise(pout.children[k].renderers[j]))
                  <=> IsGlobalChart(pout.children[k])
    /\ \A k \in 1..Len(Built) :
          IsGlobalChart(Built[k]) =>
              \A j \in 1..Len(Built[k].renderers) :
                  Built[k].renderers[j].y = [col |-> "surprise"]

C6_Witness ==
    /\ ppc = "returned"
    /\ pin.surprise = "True"
    /\ pin.hgf.n_levels = 2
    /\ ShowsNodeSurprise(pout.children[1], 2)
    /\ ShowsNodeSurprise(pout.children[2], 1)

\* C7: the chart of node i shows the band mean -/+ sqrt(1/pihat), and has
\* its y-range set to the band's min and max, exactly when ci is True and
\* not (the model is binary and i = 1); the figure of the first level of a
\* binary model never gets the band.
C7_BandExactlyWhen ==
    /\ \A k \in 1..Len(Built) :
        IsNodeChart(Built[k]) =>
            /\ HasBand(Built[k], Built[k].title.node)
                 <=> (pin.ci = "True" /\ ~(pin.hgf.model_type = "binary"
                                           /\ Built[k].title.node = 1))
            /\ YRangeIsBand(Built[k], Built[k].title.node, body.st.ranges)
                 <=> (pin.ci = "True" /\ ~(pin.hgf.model_type = "binary"
                                           /\ Built[k].title.node = 1))
    /\ ppc = "raised" =>
          /\ pin.hgf.model_type = "binary"
          /\ body.st.level_plot.title = [node |-> 1]
          /\ ~HasBand(body.st.level_plot, 1)
          /\ ~YRangeIsBand(body.st.level_plot, 1, body.st.ranges)

C7_Witness ==
    /\ ppc = "returned"
    /\ pin.ci = "True"
    /\ pin.hgf.model_type = "continuous"
    /\ pin.hgf.n_levels = 2
    /\ HasBand(pout.children[1], 2)
    /\ HasBand(pout.children[2], 1)

\* C8: for a model of n >= 1 nodes the call returns a column whose children
\* are the charts of nodes n down to 1, the global surprise chart and, when
\* slider is True, the selector strip (n + 2 children, else n + 1); the
\* observations are drawn on the chart of node 1 only.
C8_ColumnOfCharts ==
    ppc \in {"returned", "raised"} =>
        /\ ppc = "returned"
        /\ Len(pout.children) =
               pin.hgf.n_levels + (IF pin.slider = "True" THEN 2 ELSE 1)
        /\ \A k \in 1..pin.hgf.n_levels :
               pout.children[k].title = [node |-> pin.hgf.n_levels - k + 1]
        /\ IsGlobalChart(pout.children[pin.hgf.n_levels + 1])
        /\ pin.slider = "True" =>
               IsSelectChart(pout.children[pin.hgf.n_levels + 2])
        /\ \A k \in 1..Len(pout.children) :
               DrawsObservations(pout.children[k]) =>
                   pout.children[k].title = [node |-> 1]

\* C9: every node chart and the global surprise chart hold one and the
\* same x-range object, created by the first chart as the range from the
\* first to the last time point; the range tool of the selector strip is
\* bound to that object, so after a selection all of them show the
\* selected range.
C9_LinkedXRange ==
    /\ \A k \in 1..Len(Built) :
          /\ (IsNodeChart(Built[k]) \/ IsGlobalChart(Built[k])) =>
                Built[k].x_range = Built[1].x_range
          /\ Built[k].tools # <<>> =>
                /\ Built[k].tools[1].x_range = Built[1].x_range
                /\ Built[k].x_range # Built[1].x_range
    /\ (Len(Built) > 0 /\ ppc # "returned") =>
          body.st.ranges[Built[1].x_range] =
              [kind |-> "Range1d",
               start |-> [fn |-> "iloc", of |-> [col |-> "time"], at |-> 0],
               end |-> [fn |-> "iloc", of |-> [col |-> "time"], at |-> -1]]
    /\ ppc = "returned" =>
          \A k \in 1..Len(pout.children) :
              (IsNodeChart(pout.children[k]) \/ IsGlobalChart(pout.children[k]))
                  => (IsNumber(pout.ranges[pout.children[k].x_range].start)
                        <=> \E id \in 1..Len(pout.ranges) :
                                IsNumber(pout.ranges[id].start))

C9_Witness ==
    /\ ppc = "returned"
    /\ pin.slider = "True"
    /\ pin.hgf.n_levels = 3
    /\ pout.ranges[pout.children[1].x_range] = Range1d(Num(1), Num(2))
    /\ pout.children[3].x_range = pout.children[1].x_range
    /\ pout.children[4].x_range = pout.children[1].x_range

====
